---------------------------- MODULE Spec2Model ----------------------------
(***************************************************************************)
(* serde_any: format registry, single-format dispatch, probing ("try every *)
(* format") and the file resolver.                                         *)
(*                                                                         *)
(* The codecs (toml, serde_json, serde_yaml, ron, serde_xml_rs,            *)
(* serde_urlencoded) are external.  A byte string is therefore modelled by *)
(* the verdict each enabled codec gives on it: 0 when the codec rejects    *)
(* it, v > 0 when the codec decodes it to the value v.  The dispatchers    *)
(* are translated arm by arm; every operation returns its result together  *)
(* with the log of the codec invocations and I/O calls it made.            *)
(***************************************************************************)
EXTENDS Integers, Sequences, FiniteSets

VARIABLES enabled, fs, call, threads

vars == <<enabled, fs, call, threads>>

(***************************************************************************)
(* Bounds of the model.                                                    *)
(***************************************************************************)
\* values a codec can decode to are 1..MaxVal
MaxVal == 2

(***************************************************************************)
(* format.rs: the Format enum and the registry.                            *)
(***************************************************************************)
\* the variants of enum Format, in declaration order
AllFormats == <<"Toml", "Json", "Yaml", "Ron", "Xml", "Url">>

Formats == {AllFormats[i] : i \in 1..Len(AllFormats)}

\* mutant: a dispatcher that takes every format for compiled in
is_supported_always(format) == TRUE

\* Format::is_supported: cfg!(feature = ...)
is_supported(format) == format \in enabled

RECURSIVE PushEnabled(_, _)
\* the cfg-guarded pushes of supported_formats, taken in source order
PushEnabled(order, i) ==
    IF i > Len(order) THEN <<>>
    ELSE (IF order[i] \in enabled THEN <<order[i]>> ELSE <<>>)
             \o PushEnabled(order, i + 1)

\* mutant: the pushes in the opposite order
supported_formats_reversed ==
    PushEnabled([i \in 1..Len(AllFormats) |-> AllFormats[Len(AllFormats) + 1 - i]], 1)

supported_formats == PushEnabled(AllFormats, 1)

\* the cfg-guarded pushes of supported_extensions: <<feature, extension>>
AllExtensions ==
    <<<<"Toml", "toml">>, <<"Json", "json">>, <<"Yaml", "yml">>, <<"Yaml", "yaml">>,
      <<"Ron", "ron">>, <<"Xml", "xml">>>>

\* mutant: the pushes without their cfg guards
PushExtensions_unguarded(i) ==
    [j \in 1..(Len(AllExtensions) + 1 - i) |-> AllExtensions[j + i - 1][2]]

RECURSIVE PushExtensions(_)
PushExtensions(i) ==
    IF i > Len(AllExtensions) THEN <<>>
    ELSE (IF AllExtensions[i][1] \in enabled THEN <<AllExtensions[i][2]>> ELSE <<>>)
             \o PushExtensions(i + 1)

supported_extensions == PushExtensions(1)

(***************************************************************************)
(* error.rs: enum Error.                                                   *)
(***************************************************************************)
NoFormat == "None"

NoError ==
    [variant |-> "None", cause |-> NoFormat, fmt |-> NoFormat, ext |-> "",
     attempts |-> <<>>]

\* a codec's native error wrapped in the variant its From impl names
CodecError(variant, codec) ==
    [variant |-> variant, cause |-> codec, fmt |-> NoFormat, ext |-> "",
     attempts |-> <<>>]

\* Error::Io, from std::io::Error
IoError ==
    [variant |-> "Io", cause |-> "io", fmt |-> NoFormat, ext |-> "",
     attempts |-> <<>>]

UnsupportedFormat(format) ==
    [variant |-> "UnsupportedFormat", cause |-> NoFormat, fmt |-> format,
     ext |-> "", attempts |-> <<>>]

UnsupportedFileExtension(ext) ==
    [variant |-> "UnsupportedFileExtension", cause |-> NoFormat,
     fmt |-> NoFormat, ext |-> ext, attempts |-> <<>>]

NoSuccessfulParse(errors) ==
    [variant |-> "NoSuccessfulParse", cause |-> NoFormat, fmt |-> NoFormat,
     ext |-> "", attempts |-> errors]

\* mutant: the decode errors of Toml, Ron and Url are filed under the
\* variants of their encode errors
DeErrorVariant_as_ser(codec) ==
    CASE codec = "Json" -> "Json"
      [] codec = "Yaml" -> "Yaml"
      [] codec = "Toml" -> "TomlSerialize"
      [] codec = "Ron"  -> "RonSerialize"
      [] codec = "Xml"  -> "Xml"
      [] codec = "Url"  -> "UrlSerialize"

\* impl From<codec::de::Error> for Error
DeErrorVariant(codec) ==
    CASE codec = "Json" -> "Json"
      [] codec = "Yaml" -> "Yaml"
      [] codec = "Toml" -> "TomlDeserialize"
      [] codec = "Ron"  -> "RonDeserialize"
      [] codec = "Xml"  -> "Xml"
      [] codec = "Url"  -> "UrlDeserialize"

\* impl From<codec::ser::Error> for Error
SerErrorVariant(codec) ==
    CASE codec = "Json" -> "Json"
      [] codec = "Yaml" -> "Yaml"
      [] codec = "Toml" -> "TomlSerialize"
      [] codec = "Ron"  -> "RonSerialize"
      [] codec = "Xml"  -> "Xml"
      [] codec = "Url"  -> "UrlSerialize"

(***************************************************************************)
(* Results, and the log of what an operation did.                          *)
(***************************************************************************)
\* no encoder output
NoOutput == [codec |-> NoFormat, style |-> "none", val |-> 0]

\* Ok(t) of a decode, Ok(s) of an encode, Ok(()) of a write, Err(e)
Ok(v) == [ok |-> TRUE, val |-> v, out |-> NoOutput, err |-> NoError]

OkOut(out) == [ok |-> TRUE, val |-> 0, out |-> out, err |-> NoError]

OkUnit == [ok |-> TRUE, val |-> 0, out |-> NoOutput, err |-> NoError]

Err(e) == [ok |-> FALSE, val |-> 0, out |-> NoOutput, err |-> e]

NoPath == <<>>

\* one entry of the log: a codec invocation or an I/O call
Event(ev, codec, fn, path) == [ev |-> ev, codec |-> codec, fn |-> fn, path |-> path]

CodecCall(codec, fn) == Event("codec", codec, fn, NoPath)

\* nothing was handed to a writer
NotWritten == [out |-> NoOutput, upto |-> "none"]

\* what a writer has received: the output `out` up to nothing, a part or all
Written(out, upto) == [out |-> out, upto |-> upto]

Done(res, log) == [res |-> res, log |-> log, written |-> NotWritten]

DoneW(res, log, written) == [res |-> res, log |-> log, written |-> written]

(***************************************************************************)
(* The codecs' decoders.                                                   *)
(***************************************************************************)
\* byte strings: the verdict of every codec compiled in (0 where a codec is
\* not compiled in: it is never asked)
Bytes == {b \in [Formats -> 0..MaxVal] : \A f \in Formats \ enabled : b[f] = 0}

\* codec::from_str / from_slice / from_bytes applied to s, behind `?`
CodecDecode(codec, s) ==
    IF s[codec] = 0 THEN Err(CodecError(DeErrorVariant(codec), codec))
    ELSE Ok(s[codec])

(***************************************************************************)
(* de.rs: single-format decode.                                            *)
(***************************************************************************)
\* the codec each arm of from_str's match calls
from_str_arm(format) ==
    CASE format = "Yaml" -> "Yaml"
      [] format = "Json" -> "Json"
      [] format = "Toml" -> "Toml"
      [] format = "Ron"  -> "Ron"
      [] format = "Xml"  -> "Xml"
      [] format = "Url"  -> "Url"

from_str(s, format) ==
    IF is_supported(format)
    THEN Done(CodecDecode(from_str_arm(format), s),
              <<CodecCall(from_str_arm(format), "from_str")>>)
    ELSE Done(Err(UnsupportedFormat(format)), <<>>)

\* mutant: the Yaml arm calls the Json codec
from_slice_arm_yaml_as_json(format) ==
    CASE format = "Yaml" -> "Json"
      [] format = "Json" -> "Json"
      [] format = "Toml" -> "Toml"
      [] format = "Ron"  -> "Ron"
      [] format = "Xml"  -> "Xml"
      [] format = "Url"  -> "Url"

\* the codec each arm of from_slice's match calls
from_slice_arm(format) ==
    CASE format = "Yaml" -> "Yaml"
      [] format = "Json" -> "Json"
      [] format = "Toml" -> "Toml"
      [] format = "Ron"  -> "Ron"
      [] format = "Xml"  -> "Xml"
      [] format = "Url"  -> "Url"

from_slice(s, format) ==
    IF is_supported(format)
    THEN Done(CodecDecode(from_slice_arm(format), s),
              <<CodecCall(from_slice_arm(format), "from_slice")>>)
    ELSE Done(Err(UnsupportedFormat(format)), <<>>)

(***************************************************************************)
(* de.rs: decode from a reader.                                            *)
(***************************************************************************)
\* a std::io::Read: the bytes it yields, and whether a read fails before
\* the end of the stream is reached
Reader(data, fails, path) == [data |-> data, fails |-> fails, path |-> path]

\* a codec's from_reader consuming the stream itself, behind `?`: a failed
\* read comes back as the codec's own error
CodecDecodeReader(codec, reader) ==
    IF reader.fails THEN Err(CodecError(DeErrorVariant(codec), codec))
    ELSE CodecDecode(codec, reader.data)

\* mutant: the Url arm hands the reader to the Json codec
from_reader_arm_url_as_json(format) ==
    CASE format = "Yaml" -> "Yaml"
      [] format = "Json" -> "Json"
      [] format = "Toml" -> "Toml"
      [] format = "Ron"  -> "Ron"
      [] format = "Xml"  -> "Xml"
      [] format = "Url"  -> "Json"

\* the arms of from_reader's match that hand the reader to the codec
from_reader_arm(format) ==
    CASE format = "Yaml" -> "Yaml"
      [] format = "Json" -> "Json"
      [] format = "Toml" -> "Toml"
      [] format = "Ron"  -> "Ron"
      [] format = "Xml"  -> "Xml"
      [] format = "Url"  -> "Url"

\* mutant: the Toml arm hands the reader to the codec, as the other arms do
from_reader_toml_streaming(reader) ==
    Done(CodecDecodeReader("Toml", reader),
         <<CodecCall("Toml", "from_reader"),
           Event("read", "Toml", "from_reader", reader.path)>>)

\* the Toml arm: reader.read_to_end(&mut s)?; toml::from_slice(&s)?
from_reader_toml(reader) ==
    IF reader.fails
    THEN Done(Err(IoError), <<Event("read_to_end", NoFormat, "from_reader", reader.path)>>)
    ELSE Done(CodecDecode("Toml", reader.data),
              <<Event("read_to_end", NoFormat, "from_reader", reader.path),
                CodecCall("Toml", "from_slice")>>)

from_reader(reader, format) ==
    IF ~is_supported(format) THEN Done(Err(UnsupportedFormat(format)), <<>>)
    ELSE IF format = "Toml" THEN from_reader_toml(reader)
    ELSE Done(CodecDecodeReader(from_reader_arm(format), reader),
              <<CodecCall(from_reader_arm(format), "from_reader"),
                Event("read", from_reader_arm(format), "from_reader", reader.path)>>)

(***************************************************************************)
(* de.rs: probing.                                                         *)
(***************************************************************************)
\* mutant: the attempt is put in front of the list
PushAttempt_front(errors, format, err) ==
    <<[format |-> format, error |-> err]>> \o errors

\* errors.push((format, err))
PushAttempt(errors, format, err) == Append(errors, [format |-> format, error |-> err])

RECURSIVE from_str_any_loop(_, _, _, _, _)
\* the for loop of from_str_any, at element i of formats
from_str_any_loop(s, formats, i, errors, log) ==
    IF i > Len(formats) THEN Done(Err(NoSuccessfulParse(errors)), log)
    ELSE LET r == from_str(s, formats[i])
         IN  IF r.res.ok THEN Done(r.res, log \o r.log)
             ELSE from_str_any_loop(s, formats, i + 1,
                                    PushAttempt(errors, formats[i], r.res.err),
                                    log \o r.log)

from_str_any(s) == from_str_any_loop(s, supported_formats, 1, <<>>, <<>>)

RECURSIVE from_slice_any_loop(_, _, _, _, _)
\* the for loop of from_slice_any, at element i of formats
from_slice_any_loop(s, formats, i, errors, log) ==
    IF i > Len(formats) THEN Done(Err(NoSuccessfulParse(errors)), log)
    ELSE LET r == from_slice(s, formats[i])
         IN  IF r.res.ok THEN Done(r.res, log \o r.log)
             ELSE from_slice_any_loop(s, formats, i + 1,
                                      PushAttempt(errors, formats[i], r.res.err),
                                      log \o r.log)

\* mutant: the first attempt's error is returned with `?`
from_slice_any_first(s) ==
    IF supported_formats = <<>> THEN Done(Err(NoSuccessfulParse(<<>>)), <<>>)
    ELSE from_slice(s, supported_formats[1])

from_slice_any(s) == from_slice_any_loop(s, supported_formats, 1, <<>>, <<>>)

(***************************************************************************)
(* The codecs' encoders.                                                   *)
(***************************************************************************)
\* the values handed to the encoders, and what the codec asked makes of
\* each: it serializes it ("ok"), or fails before producing any output
\* ("early") or after producing some ("late")
Values == [v : 1..MaxVal, ser : {"ok", "early", "late"}]

\* the bytes codec produces for value in the standard or pretty style
Encoded(codec, style, value) == [codec |-> codec, style |-> style, val |-> value.v]

\* codec::to_string / to_vec / to_string_pretty / to_vec_pretty, behind `?`
CodecEncode(codec, style, value) ==
    IF value.ser = "ok" THEN OkOut(Encoded(codec, style, value))
    ELSE Err(CodecError(SerErrorVariant(codec), codec))

\* a std::io::Write: it accepts every byte offered ("all"), fewer bytes than
\* one write call offers but all of them in the end ("short"), or it fails,
\* at its first write ("fail0") or after accepting some bytes ("failmid")
Accepts == {"all", "short", "fail0", "failmid"}

Writer(accepts, path) == [accepts |-> accepts, path |-> path]

\* codec::to_writer(writer, value), behind `?`: the codec writes as it
\* serializes and returns its own error, also for a failed write
CodecEncodeTo(writer, codec, style, value) ==
    LET out == Encoded(codec, style, value)
        e   == Err(CodecError(SerErrorVariant(codec), codec))
    IN  CASE value.ser = "early" -> [res |-> e, written |-> NotWritten]
          [] writer.accepts = "fail0" -> [res |-> e, written |-> NotWritten]
          [] value.ser = "late" -> [res |-> e, written |-> Written(out, "part")]
          [] writer.accepts = "failmid" -> [res |-> e, written |-> Written(out, "part")]
          [] OTHER -> [res |-> OkUnit, written |-> Written(out, "all")]

\* writer.write(&s)?; Ok(()): one write call, its count is dropped
WriteOnce(writer, out) ==
    CASE writer.accepts = "all" -> [res |-> OkUnit, written |-> Written(out, "all")]
      [] writer.accepts = "fail0" -> [res |-> Err(IoError), written |-> NotWritten]
      [] OTHER -> [res |-> OkUnit, written |-> Written(out, "part")]

\* write!(&mut writer, "{}", s)?; Ok(()): write_all behind write_fmt
WriteFmt(writer, out) ==
    CASE writer.accepts \in {"all", "short"} ->
             [res |-> OkUnit, written |-> Written(out, "all")]
      [] writer.accepts = "fail0" -> [res |-> Err(IoError), written |-> NotWritten]
      [] OTHER -> [res |-> Err(IoError), written |-> Written(out, "part")]

\* the bytes a buffer holds after an encoder filled it, as the decoders see
\* them: the codec that produced a complete encoding decodes it to the value
\* encoded; what the other codecs make of it, and what any codec makes of a
\* truncated encoding, is for them to say (`others`)
BytesOf(written, others) ==
    [f \in Formats |->
        IF written.upto = "all" /\ f = written.out.codec THEN written.out.val
        ELSE others[f]]

(***************************************************************************)
(* ser.rs: single-format encode.                                           *)
(***************************************************************************)
Arm(codec, style) == [codec |-> codec, style |-> style]

\* the codec function each arm of to_string's match calls
to_string_arm(format) ==
    CASE format = "Yaml" -> Arm("Yaml", "std")
      [] format = "Json" -> Arm("Json", "std")
      [] format = "Toml" -> Arm("Toml", "std")
      [] format = "Ron"  -> Arm("Ron", "std")
      [] format = "Xml"  -> Arm("Xml", "std")
      [] format = "Url"  -> Arm("Url", "std")

\* mutant: the Yaml arm asks for a pretty encoding
to_string_pretty_arm_yaml_pretty(format) ==
    CASE format = "Yaml" -> Arm("Yaml", "pretty")
      [] format = "Json" -> Arm("Json", "pretty")
      [] format = "Toml" -> Arm("Toml", "pretty")
      [] format = "Ron"  -> Arm("Ron", "pretty")
      [] format = "Xml"  -> Arm("Xml", "std")
      [] format = "Url"  -> Arm("Url", "std")

\* the codec function each arm of to_string_pretty's match calls
to_string_pretty_arm(format) ==
    CASE format = "Yaml" -> Arm("Yaml", "std")
      [] format = "Json" -> Arm("Json", "pretty")
      [] format = "Toml" -> Arm("Toml", "pretty")
      [] format = "Ron"  -> Arm("Ron", "pretty")
      [] format = "Xml"  -> Arm("Xml", "std")
      [] format = "Url"  -> Arm("Url", "std")

\* the codec function each arm of to_vec's match calls
to_vec_arm(format) ==
    CASE format = "Yaml" -> Arm("Yaml", "std")
      [] format = "Json" -> Arm("Json", "std")
      [] format = "Toml" -> Arm("Toml", "std")
      [] format = "Ron"  -> Arm("Ron", "std")
      [] format = "Xml"  -> Arm("Xml", "std")
      [] format = "Url"  -> Arm("Url", "std")

\* the codec function each arm of to_vec_pretty's match calls
to_vec_pretty_arm(format) ==
    CASE format = "Yaml" -> Arm("Yaml", "std")
      [] format = "Json" -> Arm("Json", "pretty")
      [] format = "Toml" -> Arm("Toml", "pretty")
      [] format = "Ron"  -> Arm("Ron", "pretty")
      [] format = "Xml"  -> Arm("Xml", "std")
      [] format = "Url"  -> Arm("Url", "std")

\* one of the four in-memory encoders, given its match arms
EncodeWith(arm, fn, value, format) ==
    IF is_supported(format)
    THEN Done(CodecEncode(arm.codec, arm.style, value), <<CodecCall(arm.codec, fn)>>)
    ELSE Done(Err(UnsupportedFormat(format)), <<>>)

to_string(value, format) == EncodeWith(to_string_arm(format), "to_string", value, format)

to_string_pretty(value, format) ==
    EncodeWith(to_string_pretty_arm(format), "to_string_pretty", value, format)

to_vec(value, format) == EncodeWith(to_vec_arm(format), "to_vec", value, format)

to_vec_pretty(value, format) ==
    EncodeWith(to_vec_pretty_arm(format), "to_vec_pretty", value, format)

(***************************************************************************)
(* ser.rs: encode to a writer.                                             *)
(***************************************************************************)
WArm(codec, style, how) == [codec |-> codec, style |-> style, how |-> how]

\* each arm of to_writer's match: the codec writes itself ("stream"), or the
\* value is serialized in memory and written with write ("write") or with
\* write! ("write_fmt")
to_writer_arm(format) ==
    CASE format = "Yaml" -> WArm("Yaml", "std", "stream")
      [] format = "Json" -> WArm("Json", "std", "stream")
      [] format = "Toml" -> WArm("Toml", "std", "write")
      [] format = "Ron"  -> WArm("Ron", "std", "write_fmt")
      [] format = "Xml"  -> WArm("Xml", "std", "stream")
      [] format = "Url"  -> WArm("Url", "std", "write_fmt")

\* each arm of to_writer_pretty's match
to_writer_pretty_arm(format) ==
    CASE format = "Yaml" -> WArm("Yaml", "std", "stream")
      [] format = "Json" -> WArm("Json", "pretty", "stream")
      [] format = "Toml" -> WArm("Toml", "pretty", "write_fmt")
      [] format = "Ron"  -> WArm("Ron", "pretty", "write_fmt")
      [] format = "Xml"  -> WArm("Xml", "std", "stream")
      [] format = "Url"  -> WArm("Url", "std", "write_fmt")

\* the body of one arm: serialize in memory, then write
EncodeThenWrite(arm, fn, writer, value) ==
    LET s == CodecEncode(arm.codec, arm.style, value)
        w == IF arm.how = "write" THEN WriteOnce(writer, s.out)
             ELSE WriteFmt(writer, s.out)
    IN  IF ~s.ok THEN Done(s, <<CodecCall(arm.codec, fn)>>)
        ELSE DoneW(w.res,
                   <<CodecCall(arm.codec, fn),
                     Event("write", NoFormat, fn, writer.path)>>,
                   w.written)

\* to_writer or to_writer_pretty, given its match arms
WriteWith(arm, fn, writer, value, format) ==
    IF ~is_supported(format) THEN Done(Err(UnsupportedFormat(format)), <<>>)
    ELSE IF arm.how = "stream"
    THEN LET w == CodecEncodeTo(writer, arm.codec, arm.style, value)
         IN  DoneW(w.res, <<CodecCall(arm.codec, fn)>>, w.written)
    ELSE EncodeThenWrite(arm, fn, writer, value)

to_writer(writer, value, format) ==
    WriteWith(to_writer_arm(format), "to_writer", writer, value, format)

to_writer_pretty(writer, value, format) ==
    WriteWith(to_writer_pretty_arm(format), "to_writer_pretty", writer, value, format)

(***************************************************************************)
(* format.rs: extensions.                                                  *)
(***************************************************************************)
\* a path is its file name split at the dots: <<"c", "toml">> is c.toml
NoExt == ""

\* Path::extension().and_then(OsStr::to_str)
extension(path) == IF Len(path) > 1 THEN path[Len(path)] ELSE NoExt

\* mutant: the "yml" alternative is missing from the Yaml arm
guess_format_from_extension_no_yml(ext) ==
    CASE ext = "yaml" -> "Yaml"
      [] ext = "json" -> "Json"
      [] ext = "toml" -> "Toml"
      [] ext = "ron"  -> "Ron"
      [] ext = "xml"  -> "Xml"
      [] OTHER -> NoFormat

\* mutant: an extension of a format that is not compiled in maps to nothing
guess_format_from_extension_enabled_only(ext) ==
    LET format == guess_format_from_extension_no_yml(IF ext = "yml" THEN "yaml" ELSE ext)
    IN  IF format \in enabled THEN format ELSE NoFormat

guess_format_from_extension(ext) ==
    CASE ext \in {"yml", "yaml"} -> "Yaml"
      [] ext = "json" -> "Json"
      [] ext = "toml" -> "Toml"
      [] ext = "ron"  -> "Ron"
      [] ext = "xml"  -> "Xml"
      [] OTHER -> NoFormat

guess_format(path) ==
    IF extension(path) = NoExt THEN NoFormat
    ELSE guess_format_from_extension(extension(path))

(***************************************************************************)
(* The file system, as std::fs::File sees it.                              *)
(***************************************************************************)
\* what is at a path: nothing ("missing"), a regular file ("file"), a
\* directory ("dir": opens, but cannot be read or created over) or an entry
\* the process may not touch ("denied").  A file holds the bytes `data`
\* until File::create empties it and a writer fills it with `written`.
Entry(kind, data, written) == [kind |-> kind, data |-> data, written |-> written]

NoBytes == [f \in Formats |-> 0]

\* no File::create has touched the entry: a file still holds its old bytes
Untouched == [out |-> NoOutput, upto |-> "old"]

Missing == Entry("missing", NoBytes, Untouched)

\* File::open(path) succeeds
Opens(path) == fs[path].kind \in {"file", "dir"}

\* read_to_end on the opened file succeeds
Reads(path) == fs[path].kind = "file"

\* File::create(path) succeeds
Creates(path) == fs[path].kind \in {"missing", "file"}

\* the file system after File::create(path) and what the writer received
Created(path, written) == [fs EXCEPT ![path] = Entry("file", NoBytes, written)]

DoneFs(r, files) == [res |-> r.res, log |-> r.log, written |-> r.written, fs |-> files]

RECURSIVE FilesAfterLoop(_, _, _)
\* the file system after the I/O calls of log from its element i on:
\* File::open and the reads change nothing, File::create makes the file or
\* empties it
FilesAfterLoop(files, log, i) ==
    IF i > Len(log) THEN files
    ELSE LET e == log[i]
             creates == /\ e.ev = "create"
                        /\ e.path \in DOMAIN files
                        /\ files[e.path].kind \in {"missing", "file"}
         IN  FilesAfterLoop(IF creates
                            THEN [files EXCEPT ![e.path] = Entry("file", NoBytes, NotWritten)]
                            ELSE files,
                            log, i + 1)

\* the file system a decode operation leaves when it made the calls of log
FilesAfter(log) == FilesAfterLoop(fs, log, 1)

(***************************************************************************)
(* de.rs: decode from a file.                                              *)
(***************************************************************************)
\* mutant: the file is opened with File::create
OpenEvent_create(path) == Event("create", NoFormat, "from_file", path)

\* File::open(path)
OpenEvent(path) == Event("open", NoFormat, "from_file", path)

\* mutant: an unknown extension is taken for Json
from_file_any_as_json(path) ==
    IF ~Opens(path) THEN Done(Err(IoError), <<OpenEvent(path)>>)
    ELSE LET r == from_reader(Reader(fs[path].data, ~Reads(path), path), "Json")
         IN  Done(r.res, <<OpenEvent(path)>> \o r.log)

\* the None arm of from_file: read the whole file, then probe
from_file_any(path) ==
    IF ~Opens(path) THEN Done(Err(IoError), <<OpenEvent(path)>>)
    ELSE IF ~Reads(path)
    THEN Done(Err(IoError),
              <<OpenEvent(path), Event("read_to_end", NoFormat, "from_file", path)>>)
    ELSE LET r == from_slice_any(fs[path].data)
         IN  Done(r.res,
                  <<OpenEvent(path), Event("read_to_end", NoFormat, "from_file", path)>>
                      \o r.log)

\* mutant: a failed decode of an opened file falls back to probing
from_file_as_fallback(path, format) ==
    IF ~Opens(path) THEN Done(Err(IoError), <<OpenEvent(path)>>)
    ELSE LET r == from_reader(Reader(fs[path].data, ~Reads(path), path), format)
             a == from_file_any(path)
         IN  IF r.res.ok THEN Done(r.res, <<OpenEvent(path)>> \o r.log)
             ELSE Done(a.res, <<OpenEvent(path)>> \o r.log \o a.log)

\* mutant: the format is dispatched on before the file is opened
from_file_as_dispatch_first(path, format) ==
    IF ~is_supported(format) THEN Done(Err(UnsupportedFormat(format)), <<>>)
    ELSE IF ~Opens(path) THEN Done(Err(IoError), <<OpenEvent(path)>>)
    ELSE LET r == from_reader(Reader(fs[path].data, ~Reads(path), path), format)
         IN  Done(r.res, <<OpenEvent(path)>> \o r.log)

\* the Some(format) arm of from_file: from_reader(File::open(path)?, format)
from_file_as(path, format) ==
    IF ~Opens(path) THEN Done(Err(IoError), <<OpenEvent(path)>>)
    ELSE LET r == from_reader(Reader(fs[path].data, ~Reads(path), path), format)
         IN  Done(r.res, <<OpenEvent(path)>> \o r.log)

from_file(path) ==
    IF guess_format(path) # NoFormat THEN from_file_as(path, guess_format(path))
    ELSE from_file_any(path)

\* Path::with_extension: the extension is replaced, or added when there is none
with_extension(path, ext) ==
    IF Len(path) > 1 THEN SubSeq(path, 1, Len(path) - 1) \o <<ext>>
    ELSE path \o <<ext>>

\* mutant: a candidate that could not be opened is not counted
PushGuessed_skip_io(errors, path, err) ==
    IF guess_format(path) # NoFormat /\ err.variant # "Io"
    THEN PushAttempt(errors, guess_format(path), err)
    ELSE errors

\* the Err arm of from_file_stem: if let Some(format) = guess_format(path)
PushGuessed(errors, path, err) ==
    IF guess_format(path) # NoFormat THEN PushAttempt(errors, guess_format(path), err)
    ELSE errors

RECURSIVE from_file_stem_loop(_, _, _, _, _)
\* the for loop of from_file_stem, at element i of extensions
from_file_stem_loop(stem, extensions, i, errors, log) ==
    IF i > Len(extensions) THEN Done(Err(NoSuccessfulParse(errors)), log)
    ELSE LET path == with_extension(stem, extensions[i])
             r    == from_file(path)
         IN  IF r.res.ok THEN Done(r.res, log \o r.log)
             ELSE from_file_stem_loop(stem, extensions, i + 1,
                                      PushGuessed(errors, path, r.res.err),
                                      log \o r.log)

\* mutant: the error of the first candidate is returned with `?`
from_file_stem_first_only(stem) ==
    IF supported_extensions = <<>> THEN Done(Err(NoSuccessfulParse(<<>>)), <<>>)
    ELSE from_file(with_extension(stem, supported_extensions[1]))

from_file_stem(stem) == from_file_stem_loop(stem, supported_extensions, 1, <<>>, <<>>)

(***************************************************************************)
(* ser.rs: encode to a file.                                               *)
(***************************************************************************)
CreateEvent(path) == Event("create", NoFormat, "to_file", path)

\* mutant: the value is serialized first, and the file is created only when
\* that succeeded
to_file_as_encode_first(path, w) ==
    IF ~Creates(path) THEN DoneFs(Done(Err(IoError), <<CreateEvent(path)>>), fs)
    ELSE IF ~w.res.ok THEN DoneFs(DoneW(w.res, w.log, NotWritten), fs)
    ELSE DoneFs(DoneW(w.res, w.log \o <<CreateEvent(path)>>, w.written),
                Created(path, w.written))

\* the Some(format) arm of to_file and to_file_pretty: the argument
\* File::create(path)? is evaluated first, then the writer function is called
to_file_as(path, w) ==
    IF ~Creates(path) THEN DoneFs(Done(Err(IoError), <<CreateEvent(path)>>), fs)
    ELSE DoneFs(DoneW(w.res, <<CreateEvent(path)>> \o w.log, w.written),
                Created(path, w.written))

\* mutant: the file is created before the extension is looked at
to_file_none_creating(path) ==
    DoneFs(Done(Err(UnsupportedFileExtension(extension(path))), <<>>),
           IF Creates(path) THEN Created(path, NotWritten) ELSE fs)

\* the None arm of to_file and to_file_pretty
to_file_none(path) ==
    DoneFs(Done(Err(UnsupportedFileExtension(extension(path))), <<>>), fs)

\* `disk` is how the created file takes the bytes written to it
to_file(path, value, disk) ==
    IF guess_format(path) # NoFormat
    THEN to_file_as(path, to_writer(Writer(disk, path), value, guess_format(path)))
    ELSE to_file_none(path)

to_file_pretty(path, value, disk) ==
    IF guess_format(path) # NoFormat
    THEN to_file_as(path, to_writer_pretty(Writer(disk, path), value, guess_format(path)))
    ELSE to_file_none(path)

(***************************************************************************)
(* The state machine: one action per public operation.  The caller is      *)
(* single-threaded: a call is made when none is in progress, and its       *)
(* record stays until it has returned.                                     *)
(***************************************************************************)
NoValue == [v |-> 0, ser |-> "ok"]

Args(format, input, fails, value, accepts, path) ==
    [format |-> format, input |-> input, fails |-> fails, value |-> value,
     accepts |-> accepts, path |-> path]

\* the encode call whose output a call works on: its name and format, the
\* value it was given and the bytes it produced
Prev(op, format, value, written) ==
    [op |-> op, format |-> format, value |-> value, written |-> written]

\* the input of the call does not come from an earlier call
NoPrev == Prev("none", NoFormat, NoValue, NotWritten)

\* the record of the operation in progress: what it was given, what it
\* returned, what it did and what its writer received
Call(op, args, r) ==
    [op |-> op, args |-> args, res |-> r.res, log |-> r.log, written |-> r.written,
     prev |-> NoPrev]

NoArgs == Args(NoFormat, NoBytes, FALSE, NoValue, "all", NoPath)

Idle == Call("none", NoArgs, Done(OkUnit, <<>>))

DecodeArgs(s, format) == Args(format, s, FALSE, NoValue, "all", NoPath)

EncodeArgs(value, format) == Args(format, NoBytes, FALSE, value, "all", NoPath)

\* the byte strings the caller decodes: any, or, where files are modelled,
\* the bytes the files hold
Inputs == IF DOMAIN fs = {} THEN Bytes ELSE {fs[path].data : path \in DOMAIN fs}

FromReader ==
    /\ call.op = "none"
    /\ \E s \in Inputs, fails \in BOOLEAN, format \in Formats :
           call' = Call("from_reader", Args(format, s, fails, NoValue, "all", NoPath),
                        from_reader(Reader(s, fails, NoPath), format))
    /\ fs' = FilesAfter(call'.log)
    /\ UNCHANGED <<enabled, threads>>

FromStr ==
    /\ call.op = "none"
    /\ \E s \in Inputs, format \in Formats :
           call' = Call("from_str", DecodeArgs(s, format), from_str(s, format))
    /\ fs' = FilesAfter(call'.log)
    /\ UNCHANGED <<enabled, threads>>

FromSlice ==
    /\ call.op = "none"
    /\ \E s \in Inputs, format \in Formats :
           call' = Call("from_slice", DecodeArgs(s, format), from_slice(s, format))
    /\ fs' = FilesAfter(call'.log)
    /\ UNCHANGED <<enabled, threads>>

FromStrAny ==
    /\ call.op = "none"
    /\ \E s \in Inputs :
           call' = Call("from_str_any", DecodeArgs(s, NoFormat), from_str_any(s))
    /\ fs' = FilesAfter(call'.log)
    /\ UNCHANGED <<enabled, threads>>

FromSliceAny ==
    /\ call.op = "none"
    /\ \E s \in Inputs :
           call' = Call("from_slice_any", DecodeArgs(s, NoFormat), from_slice_any(s))
    /\ fs' = FilesAfter(call'.log)
    /\ UNCHANGED <<enabled, threads>>

ToString ==
    /\ call.op = "none"
    /\ \E value \in Values, format \in Formats :
           call' = Call("to_string", EncodeArgs(value, format), to_string(value, format))
    /\ UNCHANGED <<enabled, fs, threads>>

ToStringPretty ==
    /\ call.op = "none"
    /\ \E value \in Values, format \in Formats :
           call' = Call("to_string_pretty", EncodeArgs(value, format),
                        to_string_pretty(value, format))
    /\ UNCHANGED <<enabled, fs, threads>>

ToVec ==
    /\ call.op = "none"
    /\ \E value \in Values, format \in Formats :
           call' = Call("to_vec", EncodeArgs(value, format), to_vec(value, format))
    /\ UNCHANGED <<enabled, fs, threads>>

ToVecPretty ==
    /\ call.op = "none"
    /\ \E value \in Values, format \in Formats :
           call' = Call("to_vec_pretty", EncodeArgs(value, format),
                        to_vec_pretty(value, format))
    /\ UNCHANGED <<enabled, fs, threads>>

ToWriter ==
    /\ call.op = "none"
    /\ \E value \in Values, accepts \in Accepts, format \in Formats :
           call' = Call("to_writer", Args(format, NoBytes, FALSE, value, accepts, NoPath),
                        to_writer(Writer(accepts, NoPath), value, format))
    /\ UNCHANGED <<enabled, fs, threads>>

ToWriterPretty ==
    /\ call.op = "none"
    /\ \E value \in Values, accepts \in Accepts, format \in Formats :
           call' = Call("to_writer_pretty",
                        Args(format, NoBytes, FALSE, value, accepts, NoPath),
                        to_writer_pretty(Writer(accepts, NoPath), value, format))
    /\ UNCHANGED <<enabled, fs, threads>>

\* the operation has returned and the caller has dropped its result
Return ==
    /\ call.op # "none"
    /\ call' = Idle
    /\ UNCHANGED <<enabled, fs, threads>>

(***************************************************************************)
(* Threads.  Every operation runs to completion on the thread that calls   *)
(* it; what a probing call holds while it runs (its argument, the Vec      *)
(* supported_formats() returned, its place in the for loop and its         *)
(* `errors` Vec) is local to the call.                                     *)
(***************************************************************************)
\* the state of one thread: no call in progress
NoFrame ==
    [pc |-> "Idle", op |-> "none", input |-> NoBytes, format |-> NoFormat,
     value |-> NoValue, formats |-> <<>>, i |-> 0, errors |-> <<>>,
     attempts |-> 0, res |-> OkUnit]

\* no thread calls into the crate step by step
NoThreads == [t \in {} |-> NoFrame]

(***************************************************************************)
(* The in-memory operations, under every build (any set of cargo           *)
(* features).  Nothing on disk is involved.                                *)
(***************************************************************************)
Init ==
    /\ enabled \in SUBSET Formats
    /\ fs = [path \in {} |-> Missing]
    /\ call = Idle
    /\ threads = NoThreads

Next ==
    \/ FromReader
    \/ FromStr
    \/ FromSlice
    \/ FromStrAny
    \/ FromSliceAny
    \/ ToString
    \/ ToStringPretty
    \/ ToVec
    \/ ToVecPretty
    \/ ToWriter
    \/ ToWriterPretty
    \/ Return

Spec == Init /\ [][Next]_vars

(***************************************************************************)
(* The file operations, under every build and every file system that       *)
(* holds at most one entry among the paths tried.                          *)
(***************************************************************************)
\* the file names tried: no extension, an unknown one, every known one
Paths ==
    {<<"c">>, <<"c", "dat">>, <<"c", "toml">>, <<"c", "json">>, <<"c", "yml">>,
     <<"c", "yaml">>, <<"c", "ron">>, <<"c", "xml">>}

FromFile ==
    /\ call.op = "none"
    /\ \E path \in DOMAIN fs :
           call' = Call("from_file", Args(NoFormat, NoBytes, FALSE, NoValue, "all", path),
                        from_file(path))
    /\ fs' = FilesAfter(call'.log)
    /\ UNCHANGED <<enabled, threads>>

\* the stems tried: a plain one, and one that holds a dot itself
Stems == {<<"c">>, <<"c", "v2">>}

FromFileStem ==
    /\ call.op = "none"
    /\ \E stem \in Stems :
           call' = Call("from_file_stem",
                        Args(NoFormat, NoBytes, FALSE, NoValue, "all", stem),
                        from_file_stem(stem))
    /\ fs' = FilesAfter(call'.log)
    /\ UNCHANGED <<enabled, threads>>

InitFile ==
    /\ enabled \in SUBSET Formats
    /\ \E path \in Paths, kind \in {"missing", "file", "dir", "denied"}, data \in Bytes :
           /\ kind # "file" => data = NoBytes
           /\ fs = [p \in Paths |-> IF p = path THEN Entry(kind, data, Untouched)
                                    ELSE Missing]
    /\ call = Idle
    /\ threads = NoThreads

NextFile ==
    \/ FromFile
    \/ FromFileStem
    \/ FromStrAny
    \/ FromSliceAny
    \/ Return

SpecFile == InitFile /\ [][NextFile]_vars

(***************************************************************************)
(* from_file_stem, under every build and every file system that holds at   *)
(* most two entries among the candidates of the stems.  from_file asks     *)
(* only the codec of a candidate's extension, so a file is given by the    *)
(* verdict of that codec on its bytes.                                     *)
(***************************************************************************)
\* the files with_extension can name from the stems, and those named by
\* appending an extension to the dotted stem
StemPaths ==
    {<<"c", AllExtensions[i][2]>> : i \in 1..Len(AllExtensions)}
        \cup {<<"c", "v2", AllExtensions[i][2]>> : i \in 1..Len(AllExtensions)}

\* what is at path: nothing, a directory, or a file the codec of the
\* extension decodes to v (rejects, when v = 0)
StemEntry(path, kind, v) ==
    IF kind = "file"
    THEN Entry("file",
               [f \in Formats |-> IF f = guess_format(path) /\ f \in enabled THEN v ELSE 0],
               Untouched)
    ELSE Entry(kind, NoBytes, Untouched)

InitStem ==
    /\ enabled \in SUBSET Formats
    /\ \E p1, p2 \in StemPaths, k1, k2 \in {"missing", "dir", "file"},
          v1, v2 \in 0..MaxVal :
           /\ k1 # "file" => v1 = 0
           /\ k2 # "file" => v2 = 0
           /\ fs = [p \in StemPaths |->
                       IF p = p1 THEN StemEntry(p, k1, v1)
                       ELSE IF p = p2 THEN StemEntry(p, k2, v2)
                       ELSE Missing]
    /\ call = Idle
    /\ threads = NoThreads

NextStem ==
    \/ FromFileStem
    \/ Return

SpecStem == InitStem /\ [][NextStem]_vars

(***************************************************************************)
(* Every decode operation, repeatedly, under every build and every file    *)
(* system that holds at most one entry among the paths tried; a file holds *)
(* bytes on which the enabled codecs agree.                                *)
(***************************************************************************)
InitDecode ==
    /\ enabled \in SUBSET Formats
    /\ \E path \in Paths, kind \in {"missing", "dir", "file"}, v \in 0..MaxVal :
           /\ kind # "file" => v = 0
           /\ fs = [p \in Paths |->
                       IF p = path
                       THEN Entry(kind, [f \in Formats |-> IF f \in enabled THEN v ELSE 0],
                                  Untouched)
                       ELSE Missing]
    /\ call = Idle
    /\ threads = NoThreads

NextDecode ==
    \/ FromReader
    \/ FromStr
    \/ FromSlice
    \/ FromStrAny
    \/ FromSliceAny
    \/ FromFile
    \/ FromFileStem
    \/ Return

SpecDecode == InitDecode /\ [][NextDecode]_vars

(***************************************************************************)
(* The registry queries, repeatedly, under every build.                    *)
(***************************************************************************)
\* a query returns its answer and does nothing else
Answer(v) == Done(Ok(v), <<>>)

IsSupported ==
    /\ call.op = "none"
    /\ \E format \in Formats :
           call' = Call("is_supported", DecodeArgs(NoBytes, format),
                        Answer(is_supported(format)))
    /\ UNCHANGED <<enabled, fs, threads>>

SupportedFormats ==
    /\ call.op = "none"
    /\ call' = Call("supported_formats", NoArgs, Answer(supported_formats))
    /\ UNCHANGED <<enabled, fs, threads>>

SupportedExtensions ==
    /\ call.op = "none"
    /\ call' = Call("supported_extensions", NoArgs, Answer(supported_extensions))
    /\ UNCHANGED <<enabled, fs, threads>>

\* the paths asked about: those of the file operations, the candidates of
\* the stems, and a name that ends in a dot
GuessPaths == Paths \cup StemPaths \cup {<<"c", "">>}

GuessFormat ==
    /\ call.op = "none"
    /\ \E path \in GuessPaths :
           call' = Call("guess_format",
                        Args(NoFormat, NoBytes, FALSE, NoValue, "all", path),
                        Answer(guess_format(path)))
    /\ UNCHANGED <<enabled, fs, threads>>

(***************************************************************************)
(* format.rs: format names.  Where case matters a string is the sequence   *)
(* of its characters; Str(chars) is the string itself.                     *)
(***************************************************************************)
RECURSIVE Str(_)
Str(chars) == IF chars = <<>> THEN "" ELSE Head(chars) \o Str(Tail(chars))

\* the letters of the strings tried, and their capitals
LowerLetters ==
    <<"a", "b", "d", "h", "i", "j", "l", "m", "n", "o", "r", "s", "t", "u", "x", "y">>

UpperLetters ==
    <<"A", "B", "D", "H", "I", "J", "L", "M", "N", "O", "R", "S", "T", "U", "X", "Y">>

\* char::to_lowercase and char::to_uppercase on these letters
LowerChar(c) ==
    IF \E i \in 1..Len(UpperLetters) : UpperLetters[i] = c
    THEN LowerLetters[CHOOSE i \in 1..Len(UpperLetters) : UpperLetters[i] = c]
    ELSE c

UpperChar(c) ==
    IF \E i \in 1..Len(LowerLetters) : LowerLetters[i] = c
    THEN UpperLetters[CHOOSE i \in 1..Len(LowerLetters) : LowerLetters[i] = c]
    ELSE c

\* mutant: the string is matched as it is
to_lowercase_identity(chars) == chars

\* str::to_lowercase
to_lowercase(chars) == [i \in 1..Len(chars) |-> LowerChar(chars[i])]

\* the error of a failed parse, carrying the string that was matched
UnknownFormatStringError(s) ==
    [variant |-> "UnknownFormatStringError", cause |-> NoFormat, fmt |-> NoFormat,
     ext |-> s, attempts |-> <<>>]

\* impl FromStr for Format: match &s.to_lowercase()[..]
Format_from_str(chars) ==
    LET s == Str(to_lowercase(chars))
    IN  CASE s = "toml" -> Answer("Toml")
          [] s = "json" -> Answer("Json")
          [] s = "yaml" -> Answer("Yaml")
          [] s = "ron"  -> Answer("Ron")
          [] s = "xml"  -> Answer("Xml")
          [] s = "url"  -> Answer("Url")
          [] OTHER -> Done(Err(UnknownFormatStringError(s)), <<>>)

\* impl Display for Format: write!(f, "{:?}", self), the name of the variant
Display(format) ==
    CASE format = "Toml" -> <<"T", "o", "m", "l">>
      [] format = "Json" -> <<"J", "s", "o", "n">>
      [] format = "Yaml" -> <<"Y", "a", "m", "l">>
      [] format = "Ron"  -> <<"R", "o", "n">>
      [] format = "Xml"  -> <<"X", "m", "l">>
      [] format = "Url"  -> <<"U", "r", "l">>

RECURSIVE CaseVariants(_)
\* chars, with each letter small or capital
CaseVariants(chars) ==
    IF chars = <<>> THEN {<<>>}
    ELSE {<<c>> \o rest : c \in {Head(chars), UpperChar(Head(chars))},
                          rest \in CaseVariants(Tail(chars))}

\* the strings asked about: every format name and every extension, some
\* strings that are neither, and the empty string, in every mix of case
NameStrings ==
    UNION {CaseVariants(chars) :
               chars \in {<<"t", "o", "m", "l">>, <<"j", "s", "o", "n">>,
                          <<"y", "a", "m", "l">>, <<"y", "m", "l">>, <<"r", "o", "n">>,
                          <<"x", "m", "l">>, <<"u", "r", "l">>, <<"d", "a", "t">>,
                          <<"j", "o", "s", "n">>, <<"j">>, <<>>}}

\* s.parse::<Format>(); the string is recorded in path, as its characters
FormatFromStr ==
    /\ call.op = "none"
    /\ \E chars \in NameStrings :
           call' = Call("Format::from_str",
                        Args(NoFormat, NoBytes, FALSE, NoValue, "all", chars),
                        Format_from_str(chars))
    /\ UNCHANGED <<enabled, fs, threads>>

\* the extension asked about is recorded in path, as its characters
GuessFormatFromExtension ==
    /\ call.op = "none"
    /\ \E chars \in NameStrings :
           call' = Call("guess_format_from_extension",
                        Args(NoFormat, NoBytes, FALSE, NoValue, "all", chars),
                        Answer(guess_format_from_extension(Str(chars))))
    /\ UNCHANGED <<enabled, fs, threads>>

NextRegistry ==
    \/ IsSupported
    \/ SupportedFormats
    \/ SupportedExtensions
    \/ GuessFormat
    \/ GuessFormatFromExtension
    \/ FormatFromStr
    \/ Return

SpecRegistry == Init /\ [][NextRegistry]_vars

(***************************************************************************)
(* There and back again: a value is encoded, the bytes are decoded, and    *)
(* the decoded value is encoded again, under every build.                  *)
(***************************************************************************)
\* the call in progress, working on the output of the call before it
After(c) ==
    [c EXCEPT !.prev =
        IF call.prev # NoPrev THEN call.prev
        ELSE Prev(call.op, call.args.format, call.args.value,
                  IF call.written # NotWritten THEN call.written
                  ELSE Written(call.res.out, "all"))]

\* from_str on the string to_string or to_string_pretty returned
FromStrBack ==
    /\ call.op \in {"to_string", "to_string_pretty"}
    /\ call.prev = NoPrev
    /\ call.res.ok
    /\ LET s == BytesOf(Written(call.res.out, "all"), NoBytes)
       IN  call' = After(Call("from_str", DecodeArgs(s, call.args.format),
                              from_str(s, call.args.format)))
    /\ fs' = FilesAfter(call'.log)
    /\ UNCHANGED <<enabled, threads>>

\* from_slice on the bytes to_vec or to_vec_pretty returned
FromSliceBack ==
    /\ call.op \in {"to_vec", "to_vec_pretty"}
    /\ call.prev = NoPrev
    /\ call.res.ok
    /\ LET s == BytesOf(Written(call.res.out, "all"), NoBytes)
       IN  call' = After(Call("from_slice", DecodeArgs(s, call.args.format),
                              from_slice(s, call.args.format)))
    /\ fs' = FilesAfter(call'.log)
    /\ UNCHANGED <<enabled, threads>>

\* from_slice_any on the bytes to_writer or to_writer_pretty left in the
\* buffer it wrote to
FromSliceAnyBack ==
    /\ call.op \in {"to_writer", "to_writer_pretty"}
    /\ call.prev = NoPrev
    /\ call.res.ok
    /\ \E others \in Bytes :
           LET s == BytesOf(call.written, others)
           IN  call' = After(Call("from_slice_any", DecodeArgs(s, NoFormat),
                                  from_slice_any(s)))
    /\ fs' = FilesAfter(call'.log)
    /\ UNCHANGED <<enabled, threads>>

\* the value decoded is encoded again, by the operation that encoded it
EncodeAgain ==
    /\ call.op \in {"from_str", "from_slice"}
    /\ call.prev # NoPrev
    /\ call.res.ok
    /\ LET value  == [v |-> call.res.val, ser |-> "ok"]
           format == call.prev.format
       IN  call' =
               After(Call(call.prev.op, EncodeArgs(value, format),
                          CASE call.prev.op = "to_string" -> to_string(value, format)
                            [] call.prev.op = "to_string_pretty" ->
                                   to_string_pretty(value, format)
                            [] call.prev.op = "to_vec" -> to_vec(value, format)
                            [] call.prev.op = "to_vec_pretty" ->
                                   to_vec_pretty(value, format)))
    /\ UNCHANGED <<enabled, fs, threads>>

NextRound ==
    \/ ToString
    \/ ToStringPretty
    \/ ToVec
    \/ ToVecPretty
    \/ ToWriter
    \/ ToWriterPretty
    \/ FromStrBack
    \/ FromSliceBack
    \/ FromSliceAnyBack
    \/ EncodeAgain
    \/ Return

SpecRound == Init /\ [][NextRound]_vars

(***************************************************************************)
(* Writing a file, once, under every build and every file system that      *)
(* holds at most one entry among the paths tried.                          *)
(***************************************************************************)
ToFile ==
    /\ call.op = "none"
    /\ \E path \in Paths, value \in Values, disk \in Accepts :
           LET r == to_file(path, value, disk)
           IN  /\ call' = Call("to_file", Args(NoFormat, NoBytes, FALSE, value, disk, path), r)
               /\ fs' = r.fs
    /\ UNCHANGED <<enabled, threads>>

ToFilePretty ==
    /\ call.op = "none"
    /\ \E path \in Paths, value \in Values, disk \in Accepts :
           LET r == to_file_pretty(path, value, disk)
           IN  /\ call' = Call("to_file_pretty",
                               Args(NoFormat, NoBytes, FALSE, value, disk, path), r)
               /\ fs' = r.fs
    /\ UNCHANGED <<enabled, threads>>

\* the bytes of a file that was there before the call
OldBytes == NoBytes

InitWrite ==
    /\ enabled \in SUBSET Formats
    /\ \E path \in Paths, kind \in {"missing", "file", "dir", "denied"} :
           fs = [p \in Paths |-> IF p = path THEN Entry(kind, OldBytes, Untouched)
                                 ELSE Missing]
    /\ call = Idle
    /\ threads = NoThreads

NextWrite ==
    \/ ToFile
    \/ ToFilePretty

SpecWrite == InitWrite /\ [][NextWrite]_vars

(***************************************************************************)
(* de.rs: probing, statement by statement, on the thread that called it.   *)
(* A frame is in NotStarted when the call has been made, in Trying with    *)
(* index i while the for loop is at element i (from 0) of the Vec that     *)
(* supported_formats() returned, and in Succeeded or Exhausted when the    *)
(* function has reached a return; `attempts` counts the calls of from_str  *)
(* or from_slice the call has made.                                        *)
(***************************************************************************)
\* bytes that the codec of format decodes to v and every other codec rejects
OnlyBy(format, v) == [g \in Formats |-> IF g = format THEN v ELSE 0]

\* the byte strings handed to the threads: any when one thread runs; when
\* several run, those that no codec decodes and those that one codec does
ThreadInputs ==
    IF Cardinality(DOMAIN threads) <= 1 THEN Bytes
    ELSE {NoBytes} \cup {OnlyBy(f, MaxVal) : f \in enabled}

\* let mut errors = Vec::new(); for format in supported_formats(): the Vec
\* is built, and the loop is at its first element or, the Vec being empty,
\* over at once
EnterLoop(frame, formats) ==
    IF formats = <<>>
    THEN [frame EXCEPT !.pc = "Exhausted", !.formats = formats, !.errors = <<>>,
                       !.res = Err(NoSuccessfulParse(<<>>))]
    ELSE [frame EXCEPT !.pc = "Trying", !.formats = formats, !.i = 0,
                       !.errors = <<>>]

\* mutant: the iterator does not advance
NextIndex_stay(i) == i

\* the iterator of the for loop advances to the next element
NextIndex(i) == i + 1

\* one pass through the body of the loop: match from_str(&s, format) with
\* Ok(t) => return Ok(t) and Err(err) => errors.push((format, err)), and after
\* the last element Err(Error::NoSuccessfulParse(errors))
TryFormat(frame) ==
    LET format == frame.formats[frame.i + 1]
        r      == IF frame.op = "from_str_any" THEN from_str(frame.input, format)
                  ELSE from_slice(frame.input, format)
        errors == PushAttempt(frame.errors, format, r.res.err)
    IN  IF r.res.ok
        THEN [frame EXCEPT !.pc = "Succeeded", !.attempts = @ + 1, !.res = r.res]
        ELSE IF NextIndex(frame.i) < Len(frame.formats)
        THEN [frame EXCEPT !.i = NextIndex(@), !.errors = errors, !.attempts = @ + 1]
        ELSE [frame EXCEPT !.pc = "Exhausted", !.errors = errors, !.attempts = @ + 1,
                           !.res = Err(NoSuccessfulParse(errors))]

\* mutant: `errors` is one Vec that all calls share
StoreFrame_shared_errors(frames, t, frame) ==
    [u \in DOMAIN frames |->
        IF u = t THEN frame ELSE [frames[u] EXCEPT !.errors = frame.errors]]

\* the locals of a call are written by the thread running it, and by no other
StoreFrame(frames, t, frame) == [frames EXCEPT ![t] = frame]

\* a thread calls from_str_any or from_slice_any
ProbeCall ==
    /\ \E t \in DOMAIN threads :
           /\ threads[t].pc = "Idle"
           /\ \E op \in {"from_str_any", "from_slice_any"}, s \in ThreadInputs :
                  threads' = StoreFrame(threads, t,
                                 [NoFrame EXCEPT !.pc = "NotStarted", !.op = op,
                                                 !.input = s])
    /\ UNCHANGED <<enabled, fs, call>>

ProbeEnter ==
    /\ \E t \in DOMAIN threads :
           /\ threads[t].pc = "NotStarted"
           /\ threads' = StoreFrame(threads, t, EnterLoop(threads[t], supported_formats))
    /\ UNCHANGED <<enabled, fs, call>>

ProbeAttempt ==
    /\ \E t \in DOMAIN threads :
           /\ threads[t].pc = "Trying"
           /\ threads' = StoreFrame(threads, t, TryFormat(threads[t]))
    /\ UNCHANGED <<enabled, fs, call>>

\* a thread calls from_slice with a format, on bytes that the codec of the
\* format decodes or that no codec decodes: one codec call, no loop
ThreadDecode ==
    /\ \E t \in DOMAIN threads :
           /\ threads[t].pc = "Idle"
           /\ \E format \in Formats, s \in ThreadInputs :
                  /\ s \in {NoBytes, OnlyBy(format, s[format])}
                  /\ threads' = StoreFrame(threads, t,
                                    [NoFrame EXCEPT !.pc = "Returned",
                                                    !.op = "from_slice",
                                                    !.input = s, !.format = format,
                                                    !.res = from_slice(s, format).res])
    /\ UNCHANGED <<enabled, fs, call>>

\* a thread calls to_vec with a format; the codec serializes the value or
\* fails
ThreadEncode ==
    /\ \E t \in DOMAIN threads :
           /\ threads[t].pc = "Idle"
           /\ \E format \in Formats, v \in 1..MaxVal, ser \in {"ok", "early"} :
                  threads' = StoreFrame(threads, t,
                                 [NoFrame EXCEPT !.pc = "Returned", !.op = "to_vec",
                                                 !.value = [v |-> v, ser |-> ser],
                                                 !.format = format,
                                                 !.res = to_vec([v |-> v, ser |-> ser],
                                                                format).res])
    /\ UNCHANGED <<enabled, fs, call>>

\* the call has returned and the caller has dropped its result
ThreadReturn ==
    /\ \E t \in DOMAIN threads :
           /\ threads[t].pc \in {"Succeeded", "Exhausted", "Returned"}
           /\ threads' = StoreFrame(threads, t, NoFrame)
    /\ UNCHANGED <<enabled, fs, call>>

(***************************************************************************)
(* One thread probing, under every build and on every input.  A call in    *)
(* progress runs on: nothing suspends it.                                  *)
(***************************************************************************)
InitProbing ==
    /\ enabled \in SUBSET Formats
    /\ fs = [path \in {} |-> Missing]
    /\ call = Idle
    /\ threads = [t \in {"t1"} |-> NoFrame]

NextProbing ==
    \/ ProbeCall
    \/ ProbeEnter
    \/ ProbeAttempt
    \/ ThreadReturn

SpecProbing ==
    InitProbing /\ [][NextProbing]_vars /\ WF_vars(ProbeEnter) /\ WF_vars(ProbeAttempt)

(***************************************************************************)
(* Two threads calling into the crate at the same time, under every build. *)
(***************************************************************************)
Threads == {"t1", "t2"}

InitThreads ==
    /\ enabled \in SUBSET Formats
    /\ fs = [path \in {} |-> Missing]
    /\ call = Idle
    /\ threads = [t \in Threads |-> NoFrame]

NextThreads ==
    \/ ProbeCall
    \/ ProbeEnter
    \/ ProbeAttempt
    \/ ThreadDecode
    \/ ThreadEncode
    \/ ThreadReturn

SpecThreads == InitThreads /\ [][NextThreads]_vars

(***************************************************************************)
(* Properties.                                                             *)
(***************************************************************************)
\* the place of a format in the fixed priority order
Priority(format) == CHOOSE i \in 1..Len(AllFormats) : AllFormats[i] = format

\* the codecs an operation invoked, in the order it invoked them
CodecsCalled(log) ==
    LET IsCodec(e) == e.ev = "codec"
        calls == SelectSeq(log, IsCodec)
    IN  [i \in 1..Len(calls) |-> calls[i].codec]

ProbingOps == {"from_str_any", "from_slice_any"}

SingleFormatOps ==
    {"from_reader", "from_str", "from_slice", "to_string", "to_string_pretty",
     "to_vec", "to_vec_pretty", "to_writer", "to_writer_pretty"}

\* the single-format decode a probing call makes for format
SingleDecode(format) ==
    IF call.op = "from_str_any" THEN from_str(call.args.input, format).res
    ELSE from_slice(call.args.input, format).res

\* the enabled formats up to format, in priority order
EnabledUpTo(format) ==
    LET Before(g) == g \in enabled /\ Priority(g) <= Priority(format)
    IN  SelectSeq(AllFormats, Before)

\* C1: a probing call returns what the first enabled format, in priority
\* order, that decodes the input returns, and invokes the codecs of the
\* enabled formats up to that one, in that order, and no later one.
C1_FirstSuccessWins ==
    call.op \in ProbingOps =>
        \A f \in enabled :
            (/\ SingleDecode(f).ok
             /\ \A g \in enabled : Priority(g) < Priority(f) => ~SingleDecode(g).ok)
            => /\ call.res = SingleDecode(f)
               /\ CodecsCalled(call.log) = EnabledUpTo(f)

\* C1 witness: the input decodes under two enabled formats, to different
\* values, and the call returned the value of the earlier one.
C1_Witness ==
    /\ call.op = "from_str_any"
    /\ \E f, g \in enabled :
           /\ Priority(f) < Priority(g)
           /\ call.args.input[f] # 0
           /\ call.args.input[g] # 0
           /\ call.args.input[f] # call.args.input[g]
           /\ \A h \in enabled : Priority(h) < Priority(f) => call.args.input[h] = 0
           /\ call.res = Ok(call.args.input[f])

\* C2: a probing call on an input every enabled format rejects fails with
\* NoSuccessfulParse whose list has one entry per enabled format, entry i
\* being supported_formats[i] with the error of that format's codec.
C2_ExhaustionCompleteness ==
    (call.op \in ProbingOps /\ \A f \in enabled : ~SingleDecode(f).ok) =>
        /\ ~call.res.ok
        /\ call.res.err.variant = "NoSuccessfulParse"
        /\ call.res.err.attempts =
               [i \in 1..Len(supported_formats) |->
                    [format |-> supported_formats[i],
                     error |-> CodecError(DeErrorVariant(supported_formats[i]),
                                          supported_formats[i])]]
        /\ Len(call.res.err.attempts) = Cardinality(enabled)
        /\ \A i \in 1..Len(call.res.err.attempts) :
               call.res.err.attempts[i].error.variant
                   \notin {"UnsupportedFormat", "Io", "NoSuccessfulParse"}

\* C2 witness: three formats or more are enabled, all reject the input, and
\* the call failed with as many attempts.
C2_Witness ==
    /\ call.op = "from_slice_any"
    /\ Cardinality(enabled) >= 3
    /\ \A f \in enabled : call.args.input[f] = 0
    /\ call.res.err.variant = "NoSuccessfulParse"
    /\ Len(call.res.err.attempts) = Cardinality(enabled)

\* C4: a probing call returns Ok or NoSuccessfulParse and nothing else; when
\* it fails, every codec it invoked has its entry in the attempt list, in
\* the order of the invocations, and when it succeeds no error is returned.
C4_ProbingOutcomes ==
    call.op \in ProbingOps =>
        /\ call.res.ok \/ call.res.err.variant = "NoSuccessfulParse"
        /\ call.res.ok => call.res.err = NoError
        /\ ~call.res.ok =>
               /\ CodecsCalled(call.log) =
                      [i \in 1..Len(call.res.err.attempts) |->
                           call.res.err.attempts[i].format]
               /\ \A i \in 1..Len(call.res.err.attempts) :
                      call.res.err.attempts[i].error.cause =
                          call.res.err.attempts[i].format

\* C4 witness: the call failed after two codec invocations or more.
C4_Witness ==
    /\ call.op = "from_slice_any"
    /\ ~call.res.ok
    /\ Len(CodecsCalled(call.log)) >= 2

\* C5: a single-format operation given a format that is not enabled fails
\* with UnsupportedFormat(format), invokes no codec, reads nothing and writes
\* nothing.
C5_UnsupportedNoPartialWork ==
    (call.op \in SingleFormatOps /\ call.args.format \notin enabled) =>
        /\ call.res = Err(UnsupportedFormat(call.args.format))
        /\ call.log = <<>>
        /\ call.written = NotWritten

\* C5 witness: to_writer was given a format that is not enabled.
C5_Witness ==
    /\ call.op = "to_writer"
    /\ call.args.format \notin enabled
    /\ call.res.err.variant = "UnsupportedFormat"
    /\ call.res.err.fmt = call.args.format

\* the formats of an attempt list, in order
AttemptFormats(attempts) == [i \in 1..Len(attempts) |-> attempts[i].format]

\* every enabled format appears exactly once in the attempt list
EachEnabledOnce(attempts) ==
    /\ Len(attempts) = Cardinality(enabled)
    /\ \A f \in enabled :
           Cardinality({i \in 1..Len(attempts) : attempts[i].format = f}) = 1

\* C3, as claimed: every NoSuccessfulParse any operation returns lists every
\* enabled format exactly once.
C3_EveryListCoversEnabled ==
    call.res.err.variant = "NoSuccessfulParse" =>
        EachEnabledOnce(call.res.err.attempts)

\* C3, amended: the NoSuccessfulParse of from_str_any, from_slice_any and
\* from_file lists every enabled format exactly once; the one of
\* from_file_stem lists one entry per supported extension, in order, under
\* the format of the extension.
C3_AttemptLists ==
    call.res.err.variant = "NoSuccessfulParse" =>
        /\ call.op \in {"from_str_any", "from_slice_any", "from_file", "from_file_stem"}
        /\ call.op # "from_file_stem" => EachEnabledOnce(call.res.err.attempts)
        /\ call.op = "from_file_stem" =>
               AttemptFormats(call.res.err.attempts) =
                   [i \in 1..Len(supported_extensions) |->
                        guess_format_from_extension(supported_extensions[i])]

\* C3 witness: from_file_stem failed in a build with Yaml, and Yaml is
\* listed twice.
C3_Witness ==
    /\ call.op = "from_file_stem"
    /\ "Yaml" \in enabled
    /\ call.res.err.variant = "NoSuccessfulParse"
    /\ Cardinality({i \in 1..Len(call.res.err.attempts) :
                        call.res.err.attempts[i].format = "Yaml"}) = 2

ToFileOps == {"to_file", "to_file_pretty"}

\* no File::create has created or emptied anything
NothingTouched == \A path \in DOMAIN fs : fs[path].written = Untouched

\* C6: to_file and to_file_pretty on a path without extension, or with one
\* that maps to no format, fail with UnsupportedFileExtension of the
\* extension ("" when there is none) and leave every file as it was.
C6_UnknownExtensionWrite ==
    (call.op \in ToFileOps /\ guess_format(call.args.path) = NoFormat) =>
        /\ call.res =
               Err(UnsupportedFileExtension(
                       IF Len(call.args.path) = 1 THEN ""
                       ELSE call.args.path[Len(call.args.path)]))
        /\ call.log = <<>>
        /\ call.written = NotWritten
        /\ NothingTouched

\* C6 witness: to_file("c.dat") failed where no c.dat exists, and none exists
\* after.
C6_Witness ==
    /\ call.op = "to_file"
    /\ call.args.path = <<"c", "dat">>
    /\ call.res = Err(UnsupportedFileExtension("dat"))
    /\ fs[<<"c", "dat">>].kind = "missing"

\* C7, as claimed: to_file and to_file_pretty on a creatable path whose
\* extension maps to a format that is not enabled fail with
\* UnsupportedFormat(format) and neither create nor empty the file.
C7_DisabledFormatWrite ==
    (/\ call.op \in ToFileOps
     /\ guess_format(call.args.path) \in Formats \ enabled
     /\ Creates(call.args.path)) =>
        /\ call.res = Err(UnsupportedFormat(guess_format(call.args.path)))
        /\ NothingTouched

\* C8: from_file on a path whose extension maps to a format invokes the
\* codec of that format at most, returns what from_reader returns for that
\* format on the opened file, and never the aggregate of a probing.
C8_RecognizedExtensionTrusted ==
    (call.op = "from_file" /\ guess_format(call.args.path) # NoFormat) =>
        LET path   == call.args.path
            format == guess_format(path)
        IN  /\ \A i \in 1..Len(CodecsCalled(call.log)) :
                   CodecsCalled(call.log)[i] = format
            /\ Len(CodecsCalled(call.log)) <= 1
            /\ call.res.err.variant # "NoSuccessfulParse"
            /\ Opens(path) =>
                   call.res = from_reader(Reader(fs[path].data, ~Reads(path), path),
                                          format).res
            /\ (Reads(path) /\ format \in enabled /\ fs[path].data[format] = 0) =>
                   call.res = Err(CodecError(DeErrorVariant(format), format))

\* C8 witness: c.json holds bytes Json rejects and another enabled format
\* decodes, and from_file returned the Json error.
C8_Witness ==
    /\ call.op = "from_file"
    /\ call.args.path = <<"c", "json">>
    /\ "Json" \in enabled
    /\ Reads(call.args.path)
    /\ fs[call.args.path].data["Json"] = 0
    /\ \E g \in enabled : fs[call.args.path].data[g] # 0
    /\ call.res = Err(CodecError("Json", "Json"))

\* C9: from_file on a path without a known extension, whose file opens and
\* reads, returns what from_slice_any returns on the bytes of the file, and
\* invokes the same codecs.
C9_FallbackEquivalence ==
    (/\ call.op = "from_file"
     /\ guess_format(call.args.path) = NoFormat
     /\ Reads(call.args.path)) =>
        /\ call.res = from_slice_any(fs[call.args.path].data).res
        /\ CodecsCalled(call.log) =
               CodecsCalled(from_slice_any(fs[call.args.path].data).log)

\* C9 witness: c.dat holds bytes that the second enabled format or a later
\* one is the first to decode, and from_file returned its value.
C9_Witness ==
    /\ call.op = "from_file"
    /\ call.args.path = <<"c", "dat">>
    /\ Reads(call.args.path)
    /\ \E f \in enabled :
           /\ fs[call.args.path].data[f] # 0
           /\ \E g \in enabled : Priority(g) < Priority(f)
           /\ \A g \in enabled :
                  Priority(g) < Priority(f) => fs[call.args.path].data[g] = 0
           /\ call.res = Ok(fs[call.args.path].data[f])

\* C10: from_file on a path that does not open fails with Io, whatever the
\* extension, having invoked no codec and built no attempt list.
C10_OpenFailureShortCircuits ==
    (call.op = "from_file" /\ ~Opens(call.args.path)) =>
        /\ call.res = Err(IoError)
        /\ CodecsCalled(call.log) = <<>>
        /\ call.log = <<OpenEvent(call.args.path)>>
        /\ call.res.err.attempts = <<>>

\* C10 witness: c.toml is missing in a build without Toml, and from_file
\* failed with Io.
C10_Witness ==
    /\ call.op = "from_file"
    /\ call.args.path = <<"c", "toml">>
    /\ fs[call.args.path].kind = "missing"
    /\ "Toml" \notin enabled
    /\ call.res = Err(IoError)

\* the paths an operation opened, in the order it opened them
Opened(log) ==
    LET IsOpen(e) == e.ev = "open"
        opens == SelectSeq(log, IsOpen)
    IN  [i \in 1..Len(opens) |-> opens[i].path]

\* C11: from_file_stem opens its candidates in supported_extensions() order,
\* the i-th file opened carrying the i-th extension; it goes on past every
\* candidate from_file fails on, missing or unparsable, returns what
\* from_file returns for the first candidate it succeeds on, and opens
\* nothing after it; it fails only when every candidate was tried.
C11_FirstCandidateWins ==
    call.op = "from_file_stem" =>
        LET opened == Opened(call.log)
            n      == Len(opened)
        IN  /\ n <= Len(supported_extensions)
            /\ \A i \in 1..n : extension(opened[i]) = supported_extensions[i]
            /\ \A i \in 1..n : i < n => ~from_file(opened[i]).res.ok
            /\ call.res.ok =>
                   /\ n >= 1
                   /\ from_file(opened[n]).res.ok
                   /\ call.res = from_file(opened[n]).res
            /\ ~call.res.ok =>
                   /\ n = Len(supported_extensions)
                   /\ \A i \in 1..n : ~from_file(opened[i]).res.ok

\* C11 witness: from_file_stem("c") went past a candidate file that does
\* not parse and returned the value of a later candidate.
C11_Witness ==
    /\ call.op = "from_file_stem"
    /\ call.args.path = <<"c">>
    /\ call.res.ok
    /\ call.res.val > 0
    /\ \E i \in 1..Len(Opened(call.log)) :
           /\ i < Len(Opened(call.log))
           /\ fs[Opened(call.log)[i]].kind = "file"

\* C12, as claimed: the i-th candidate from_file_stem tries is the stem with
\* "." and the i-th extension appended, also when the stem holds a dot.
C12_CandidateIsStemPlusExtension ==
    call.op = "from_file_stem" =>
        \A i \in 1..Len(Opened(call.log)) :
            Opened(call.log)[i] = call.args.path \o <<supported_extensions[i]>>

\* C13: when from_file_stem fails, it fails with NoSuccessfulParse whose
\* list has one entry per candidate, in the order tried, pairing the format
\* of the candidate's extension with the error from_file returns for the
\* candidate; a missing candidate is listed with an Io error.
C13_StemAggregate ==
    (call.op = "from_file_stem" /\ ~call.res.ok) =>
        LET opened   == Opened(call.log)
            attempts == call.res.err.attempts
        IN  /\ call.res.err.variant = "NoSuccessfulParse"
            /\ Len(attempts) = Len(supported_extensions)
            /\ Len(opened) = Len(supported_extensions)
            /\ \A i \in 1..Len(attempts) :
                   /\ attempts[i].format =
                          guess_format_from_extension(supported_extensions[i])
                   /\ attempts[i].error = from_file(opened[i]).res.err
                   /\ fs[opened[i]].kind = "missing" => attempts[i].error = IoError

\* C13 witness: from_file_stem("c") failed on a missing candidate and on a
\* candidate file that does not parse, and lists an Io error and a codec's.
C13_Witness ==
    /\ call.op = "from_file_stem"
    /\ call.args.path = <<"c">>
    /\ call.res.err.variant = "NoSuccessfulParse"
    /\ \E i, j \in 1..Len(call.res.err.attempts) :
           /\ call.res.err.attempts[i].error = IoError
           /\ fs[Opened(call.log)[i]].kind = "missing"
           /\ call.res.err.attempts[j].error.cause # "io"
           /\ fs[Opened(call.log)[j]].kind = "file"

\* C14: no step of a decode operation changes the file system: after any
\* sequence of decode calls every file is as it was.
C14_DecodeLeavesFiles == [][fs' = fs]_vars

\* C14 witness: from_file decoded a file, and the file still holds its
\* bytes.
C14_Witness ==
    /\ call.op = "from_file"
    /\ call.res.ok
    /\ call.res.val > 0
    /\ fs[call.args.path].kind = "file"
    /\ fs[call.args.path].data # NoBytes
    /\ fs[call.args.path].written = Untouched

\* the formats without a pretty encoder
NoPrettyFormats == {"Yaml", "Xml", "Url"}

\* C17: for Yaml, Xml and Url, to_string_pretty, to_vec_pretty and
\* to_writer_pretty return what to_string, to_vec and to_writer return for
\* the same value, hand the same bytes to the writer, and fail only where
\* the standard operation fails.
C17_PrettyFallback ==
    call.args.format \in NoPrettyFormats =>
        /\ call.op = "to_string_pretty" =>
               call.res = to_string(call.args.value, call.args.format).res
        /\ call.op = "to_vec_pretty" =>
               call.res = to_vec(call.args.value, call.args.format).res
        /\ call.op = "to_writer_pretty" =>
               LET w == to_writer(Writer(call.args.accepts, NoPath), call.args.value,
                                  call.args.format)
               IN  /\ call.res = w.res
                   /\ call.written = w.written

\* C17 witness: to_string_pretty encoded a value as Yaml, in the standard
\* style.
C17_Witness ==
    /\ call.op = "to_string_pretty"
    /\ call.args.format = "Yaml"
    /\ call.res.ok
    /\ call.res.out = Encoded("Yaml", "std", call.args.value)

\* the priority order of the formats, and the extensions in their order
PriorityOrder == <<"Toml", "Json", "Yaml", "Ron", "Xml", "Url">>

ExtensionOrder == <<"toml", "json", "yml", "yaml", "ron", "xml">>

\* C18: supported_formats() returns the enabled formats in the order Toml,
\* Json, Yaml, Ron, Xml, Url, each once: a format is listed exactly when
\* is_supported() is true of it.  The list depends on the build alone, and
\* the build does not change, so every call returns the same list.
C18_SupportedFormats ==
    /\ call.op = "supported_formats" =>
           LET list == call.res.val
               IsEnabled(f) == f \in enabled
           IN  /\ list = SelectSeq(PriorityOrder, IsEnabled)
               /\ \A i, j \in 1..Len(list) : i # j => list[i] # list[j]
               /\ \A f \in Formats :
                      is_supported(f) <=> \E i \in 1..Len(list) : list[i] = f
    /\ call.op = "is_supported" => (call.res.val <=> call.args.format \in enabled)

\* C18 witness: supported_formats() returned Json before Url in a build with
\* these two and without Toml.
C18_Witness ==
    /\ call.op = "supported_formats"
    /\ enabled = {"Json", "Url"}
    /\ call.res.val = <<"Json", "Url">>

\* C19: supported_extensions() returns toml, json, yml, yaml, ron, xml
\* restricted to the extensions of enabled formats, in that order; Url adds
\* nothing.
C19_SupportedExtensions ==
    call.op = "supported_extensions" =>
        LET OfEnabled(e) ==
                \/ e = "toml" /\ "Toml" \in enabled
                \/ e = "json" /\ "Json" \in enabled
                \/ e \in {"yml", "yaml"} /\ "Yaml" \in enabled
                \/ e = "ron" /\ "Ron" \in enabled
                \/ e = "xml" /\ "Xml" \in enabled
        IN  call.res.val = SelectSeq(ExtensionOrder, OfEnabled)

\* C19 witness: supported_extensions() returned yml, yaml and xml in a build
\* with Yaml, Xml and Url only.
C19_Witness ==
    /\ call.op = "supported_extensions"
    /\ enabled = {"Yaml", "Xml", "Url"}
    /\ call.res.val = <<"yml", "yaml", "xml">>

\* C20: for every ext in supported_extensions(), guess_format on a path
\* given that extension returns what guess_format_from_extension(ext)
\* returns, which is a format, and an enabled one.
C20_ExtensionsResolve ==
    \A i \in 1..Len(supported_extensions) :
        LET ext == supported_extensions[i]
        IN  /\ (call.op = "guess_format"
                   /\ \E stem \in Stems : call.args.path = with_extension(stem, ext)) =>
                   /\ call.res.val = guess_format_from_extension(ext)
                   /\ call.res.val # NoFormat
                   /\ call.res.val \in enabled
            /\ (call.op = "guess_format_from_extension" /\ Str(call.args.path) = ext) =>
                   /\ call.res.val # NoFormat
                   /\ call.res.val \in enabled

\* C20 witness: guess_format("c.yml") returned Yaml in a build with Yaml.
C20_Witness ==
    /\ call.op = "guess_format"
    /\ call.args.path = <<"c", "yml">>
    /\ "Yaml" \in enabled
    /\ call.res.val = "Yaml"

InMemoryEncoders == {"to_string", "to_string_pretty", "to_vec", "to_vec_pretty"}

ProbedEncoding ==
    /\ call.op = "from_slice_any"
    /\ call.prev # NoPrev
    /\ call.prev.written.upto = "all"

MappedFormat(ext) ==
    CASE ext = "toml" -> "Toml"
      [] ext = "json" -> "Json"
      [] ext = "yml"  -> "Yaml"
      [] ext = "yaml" -> "Yaml"
      [] ext = "ron"  -> "Ron"
      [] ext = "xml"  -> "Xml"
      [] OTHER -> NoFormat

\* C21: guess_format_from_extension returns the format the table gives for
\* the extension, and guess_format the one it gives for the extension of the
\* path, whether or not the format is enabled; they return none exactly when
\* the path has no extension or the table has no entry for it.
C21_GuessIgnoresEnabled ==
    /\ call.op = "guess_format_from_extension" =>
           call.res.val = MappedFormat(Str(call.args.path))
    /\ call.op = "guess_format" =>
           call.res.val =
               IF Len(call.args.path) = 1 THEN NoFormat
               ELSE MappedFormat(call.args.path[Len(call.args.path)])

\* C21 witness: guess_format_from_extension("yml") returned Yaml in a build
\* without Yaml.
C21_Witness ==
    /\ call.op = "guess_format_from_extension"
    /\ call.args.path = <<"y", "m", "l">>
    /\ "Yaml" \notin enabled
    /\ call.res.val = "Yaml"

\* chars is name, up to the case of each letter
SameIgnoringCase(chars, name) ==
    /\ Len(chars) = Len(name)
    /\ \A i \in 1..Len(chars) : chars[i] \in {name[i], UpperChar(name[i])}

\* the name of a format, in small letters
LowerName(format) ==
    CASE format = "Toml" -> <<"t", "o", "m", "l">>
      [] format = "Json" -> <<"j", "s", "o", "n">>
      [] format = "Yaml" -> <<"y", "a", "m", "l">>
      [] format = "Ron"  -> <<"r", "o", "n">>
      [] format = "Xml"  -> <<"x", "m", "l">>
      [] format = "Url"  -> <<"u", "r", "l">>

\* C22: parsing a string as a format name returns the format f exactly when
\* the string is json, yaml, toml, ron, xml or url up to case, enabled or not,
\* so the Display string of f parses to f; every other string fails with the
\* unknown-format-name error.
C22_ParseFormatName ==
    call.op = "Format::from_str" =>
        /\ \A f \in Formats :
               SameIgnoringCase(call.args.path, LowerName(f)) =>
                   (call.res.ok /\ call.res.val = f)
        /\ \A f \in Formats :
               call.args.path = Display(f) => (call.res.ok /\ call.res.val = f)
        /\ (\A f \in Formats : ~SameIgnoringCase(call.args.path, LowerName(f))) =>
               /\ ~call.res.ok
               /\ call.res.err.variant = "UnknownFormatStringError"

\* C22 witness: "Json" parsed to Json in a build without Json.
C22_Witness ==
    /\ call.op = "Format::from_str"
    /\ call.args.path = <<"J", "s", "o", "n">>
    /\ "Json" \notin enabled
    /\ call.res.ok
    /\ call.res.val = "Json"

\* C23, as claimed: for a string that is json, toml, yaml, ron or xml up to
\* case, guess_format_from_extension returns a format exactly when the
\* string parses as a format name, and then the same format.
C23_CaseConsistency ==
    (/\ call.op = "guess_format_from_extension"
     /\ \E f \in Formats \ {"Url"} : SameIgnoringCase(call.args.path, LowerName(f))) =>
        /\ call.res.val # NoFormat <=> Format_from_str(call.args.path).res.ok
        /\ (call.res.val # NoFormat /\ Format_from_str(call.args.path).res.ok) =>
               call.res.val = Format_from_str(call.args.path).res.val

\* the call was answered otherwise than with UnsupportedFormat
Handled == call.res.err.variant # "UnsupportedFormat"

\* the read of the stream failed before the Toml codec was reached
TomlReadFailed ==
    call.op = "from_reader" /\ call.args.format = "Toml" /\ call.args.fails

EncodedInMemory == {"Toml", "Ron", "Url"}

\* C25, as claimed: to_writer and to_writer_pretty with Toml, Ron or Url
\* give the writer nothing when serialization fails, and when they return Ok
\* the writer has received every byte of the output, also when it accepts
\* fewer bytes than one write call offers.
C25_WriterAllOrNothing ==
    (/\ call.op \in {"to_writer", "to_writer_pretty"}
     /\ call.args.format \in EncodedInMemory
     /\ is_supported(call.args.format)) =>
        /\ call.args.value.ser # "ok" =>
               /\ ~call.res.ok
               /\ call.written = NotWritten
        /\ call.res.ok => call.written.upto = "all"

\* the events of the log with their positions
ReadToEndAt(i) == i \in 1..Len(call.log) /\ call.log[i].ev = "read_to_end"

CodecCalledAt(i) == i \in 1..Len(call.log) /\ call.log[i].ev = "codec"

\* C26: from_reader with Toml enabled reads the stream to its end before
\* the Toml codec is invoked, and the codec is given the buffer
\* (toml::from_slice); if the read fails the call returns Error::Io and no
\* codec is invoked.  For every other enabled format the first thing the call
\* does is hand the reader to the codec's from_reader, which reads the
\* stream itself.
C26_TomlBuffersFirst ==
    (call.op = "from_reader" /\ is_supported(call.args.format)) =>
        IF call.args.format = "Toml"
        THEN /\ ReadToEndAt(1)
             /\ \A i \in 1..Len(call.log) : CodecCalledAt(i) =>
                    /\ \E j \in 1..(i - 1) : ReadToEndAt(j)
                    /\ call.log[i].fn = "from_slice"
                    /\ call.log[i].codec = "Toml"
             /\ call.args.fails =>
                    /\ call.res = Err(IoError)
                    /\ CodecsCalled(call.log) = <<>>
             /\ ~call.args.fails =>
                    /\ CodecsCalled(call.log) = <<"Toml">>
                    /\ call.res = CodecDecode("Toml", call.args.input)
        ELSE /\ CodecCalledAt(1)
             /\ call.log[1].fn = "from_reader"
             /\ call.log[1].codec = call.args.format
             /\ \A i \in 1..Len(call.log) : ~ReadToEndAt(i)
             /\ \A i \in 1..Len(call.log) :
                    call.log[i].ev = "read" =>
                        i > 1 /\ call.log[i].codec = call.args.format
             /\ call.args.fails => call.res.err.variant # "Io"

\* C26 witness: from_reader with Toml on a stream whose read fails returned
\* Error::Io after read_to_end, the Toml codec not having been invoked on
\* bytes it would have decoded.
C26_Witness ==
    /\ call.op = "from_reader"
    /\ call.args.format = "Toml"
    /\ "Toml" \in enabled
    /\ call.args.fails
    /\ call.args.input["Toml"] # 0
    /\ call.res = Err(IoError)
    /\ Len(call.log) = 1
    /\ ReadToEndAt(1)

\* the Error variant that wraps the decode error of each format's codec
VariantOf(format) ==
    CASE format = "Json" -> "Json"
      [] format = "Yaml" -> "Yaml"
      [] format = "Toml" -> "TomlDeserialize"
      [] format = "Ron"  -> "RonDeserialize"
      [] format = "Xml"  -> "Xml"
      [] format = "Url"  -> "UrlDeserialize"

Prober == "t1"

Terminal == {"Succeeded", "Exhausted"}

\* the state of a probing call in progress agrees with the attempts made:
\* at Trying(i) exactly i attempts have been made and have failed
ProbeInv ==
    \A t \in DOMAIN threads :
        LET a == threads[t]
            n == Len(supported_formats)
        IN  a.op \in ProbingOps =>
                /\ a.pc \in {"NotStarted", "Trying"} \cup Terminal
                /\ a.attempts <= n
                /\ a.pc = "NotStarted" => a.attempts = 0 /\ a.errors = <<>>
                /\ a.pc = "Trying" =>
                       /\ a.i < n
                       /\ a.attempts = a.i
                       /\ Len(a.errors) = a.i
                /\ a.pc = "Succeeded" =>
                       /\ a.res.ok
                       /\ a.attempts >= 1
                       /\ Len(a.errors) = a.attempts - 1
                /\ a.pc = "Exhausted" =>
                       /\ a.attempts = n
                       /\ Len(a.errors) = n
                       /\ a.res = Err(NoSuccessfulParse(a.errors))

\* b is a with one more attempt made, which failed
OneMoreFailure(a, b) ==
    /\ b.attempts = a.attempts + 1
    /\ Len(b.errors) = Len(a.errors) + 1
    /\ SubSeq(b.errors, 1, Len(a.errors)) = a.errors
    /\ b.errors[Len(b.errors)].format = a.formats[a.i + 1]

\* the steps a probing call takes
ProbeStep ==
    \A t \in DOMAIN threads :
        LET a == threads[t]
            b == threads'[t]
        IN  \/ b = a
            \/ a.pc = "Idle"
            \/ /\ a.pc = "NotStarted"
               /\ \/ b.pc = "Trying" /\ b.i = 0 /\ b.attempts = 0 /\ b.errors = <<>>
                  \/ b.pc = "Exhausted" /\ supported_formats = <<>> /\ b.attempts = 0
            \/ /\ a.pc = "Trying"
               /\ \/ /\ b.pc = "Succeeded"
                     /\ b.attempts = a.attempts + 1
                     /\ b.errors = a.errors
                  \/ /\ b.pc = "Trying"
                     /\ b.i = a.i + 1
                     /\ OneMoreFailure(a, b)
                  \/ /\ b.pc = "Exhausted"
                     /\ a.i + 1 = Len(supported_formats)
                     /\ OneMoreFailure(a, b)
            \/ /\ a.pc \in Terminal
               /\ b = NoFrame

\* C28: a probing call goes from NotStarted to Trying(0) (or, no format being
\* enabled, to Exhausted), from Trying(i) to Succeeded when the attempt
\* succeeds, and when it fails to Trying(i+1), or after the last format to
\* Exhausted, the attempt list one entry longer; it makes at most
\* len(supported_formats()) attempts; from Succeeded and Exhausted it only
\* returns; and every call that has started reaches Succeeded or Exhausted.
C28_ProbingTerminates ==
    /\ []ProbeInv
    /\ [][ProbeStep]_vars
    /\ (threads[Prober].pc = "NotStarted") ~> (threads[Prober].pc \in Terminal)

\* C28 witness: with three formats enabled a call has failed twice and is at
\* Trying(2), its attempt list holding two entries.
C28_Witness ==
    /\ Cardinality(enabled) = 3
    /\ threads[Prober].pc = "Trying"
    /\ threads[Prober].i = 2
    /\ threads[Prober].attempts = 2
    /\ Len(threads[Prober].errors) = 2

\* what the call of a thread returns when it runs alone on the same input
RunAlone(a) ==
    CASE a.op = "from_str_any"   -> from_str_any(a.input).res
      [] a.op = "from_slice_any" -> from_slice_any(a.input).res
      [] a.op = "from_slice"     -> from_slice(a.input, a.format).res
      [] a.op = "to_vec"         -> to_vec(a.value, a.format).res

\* C29: while threads call into the crate at the same time the registry is
\* not written, the attempt list of a probing call changes only by a step of
\* that call and holds, at Trying(i), the failures of the first i enabled
\* formats, and every call returns what it returns when run alone on the
\* same input.
C29_ThreadsIndependent ==
    /\ [][enabled' = enabled]_vars
    /\ [][\A t \in Threads :
             (threads'[t].pc = threads[t].pc /\ threads'[t].attempts = threads[t].attempts)
                 => threads'[t] = threads[t]]_vars
    /\ [](\A t \in Threads :
             LET a == threads[t]
             IN  /\ a.pc = "Trying" =>
                        AttemptFormats(a.errors) = SubSeq(supported_formats, 1, a.i)
                 /\ a.pc \in Terminal \cup {"Returned"} => a.res = RunAlone(a))

\* C29 witness: both threads are probing, on different inputs: one has
\* exhausted three formats while the other is at Trying(1) with one failure
\* in its own list.
C29_Witness ==
    /\ threads["t1"].pc = "Exhausted"
    /\ Len(threads["t1"].errors) = 3
    /\ threads["t2"].pc = "Trying"
    /\ threads["t2"].i = 1
    /\ Len(threads["t2"].errors) = 1
    /\ threads["t2"].input # threads["t1"].input

\* C30: to_file and to_file_pretty on a path whose extension resolves, where
\* the file exists and can be opened for writing: File::create is the first
\* thing the call does, before any codec is invoked; when the encode then
\* fails, the call returns the error of the codec or the I/O error, and the
\* file no longer holds its previous contents: it is empty or holds the
\* beginning of the encoding.
C30_FailedWriteLosesFile ==
    [][(/\ call'.op \in ToFileOps
        /\ guess_format(call'.args.path) # NoFormat
        /\ fs[call'.args.path].kind = "file") =>
           LET path == call'.args.path
               f    == guess_format(path)
           IN  /\ Len(call'.log) >= 1
               /\ call'.log[1] = CreateEvent(path)
               /\ \A i \in 1..Len(call'.log) : call'.log[i].ev = "codec" => i > 1
               /\ fs'[path].kind = "file"
               /\ fs[path].written = Untouched
               /\ fs'[path].written = call'.written
               /\ ~call'.res.ok =>
                      /\ fs'[path].written.upto \in {"none", "part"}
                      /\ is_supported(f) =>
                             call'.res.err \in {IoError, CodecError(SerErrorVariant(f), f)}
               /\ (call'.args.value.ser # "ok" /\ is_supported(f)) =>
                      /\ call'.res.err.variant = SerErrorVariant(f)
                      /\ fs'[path].written.upto \in {"none", "part"}]_vars

\* C30 witness: to_file on c.json returned the Json codec's error after the
\* file was created, and the file holds the beginning of the encoding.
C30_Witness ==
    /\ call.op = "to_file"
    /\ call.args.path = <<"c", "json">>
    /\ call.args.value.ser = "late"
    /\ ~call.res.ok
    /\ call.res.err.variant = "Json"
    /\ call.log[1] = CreateEvent(<<"c", "json">>)
    /\ fs[<<"c", "json">>].kind = "file"
    /\ fs[<<"c", "json">>].written.upto = "part"

=============================================================================
